---- MODULE Spec2Model ----
(***************************************************************************)
(* A model of gmetric.py: the Gmetric descriptor (validated attribute      *)
(* assignment, set_heartbeat, the two XDR encoders) and the Sender (socket *)
(* life cycle and send), the latter run by one or by several threads.      *)
(*                                                                         *)
(* Python values are tagged records, so that the isinstance tests and the  *)
(* truthiness tests of the source can be computed.  A Python str is a      *)
(* sequence of one-character strings, so that '"' in value and             *)
(* value.split(':', 1) are computed on the characters.                     *)
(***************************************************************************)
EXTENDS Integers, Sequences, FiniteSets, TLC

(* ---------------------------------------------------------------- bounds *)
\* longest gm_group list a caller assigns
MaxGroup == 2
\* Sender calls (create_socket, close_socket, send) made in one behaviour
MaxCalls == 3
\* sockets the process creates in one behaviour
MaxSockets == 2

(* --------------------------------------------------------- Python values *)
None == [t |-> "none"]
PyStr(s) == [t |-> "str", s |-> s]
PyInt(i) == [t |-> "int", i |-> i]
PyBool(b) == [t |-> "bool", b |-> b]
PyList(l) == [t |-> "list", l |-> l]

\* bool(value) for the values the model holds
Truthy(v) ==
    CASE v.t = "none" -> FALSE
      [] v.t = "str"  -> Len(v.s) > 0
      [] v.t = "int"  -> v.i # 0
      [] v.t = "bool" -> v.b
      [] v.t = "list" -> Len(v.l) > 0
      [] v.t = "SlopeEnum" -> v.value # 0
      [] OTHER -> TRUE

\* string literals of the source, character by character
S_heartbeat == <<"h","e","a","r","t","b","e","a","t">>
S_CLUSTER == <<"C","L","U","S","T","E","R">>
S_DESC == <<"D","E","S","C">>
S_TITLE == <<"T","I","T","L","E">>
S_GROUP == <<"G","R","O","U","P">>
S_SPOOF_HOST == <<"S","P","O","O","F","_","H","O","S","T">>
S_SPOOF_HEARTBEAT == <<"S","P","O","O","F","_","H","E","A","R","T","B","E","A","T">>
S_yes == <<"y","e","s">>
S_fmt == <<"%","s">>
S_zero == <<"0">>
S_empty == <<>>

TypeMember(n, v) == [t |-> "TypeEnum", name |-> n, value |-> v]
TypeEnum ==
    { TypeMember("STRING", <<"s","t","r","i","n","g">>),
      TypeMember("INT8",   <<"i","n","t","8">>),
      TypeMember("UINT8",  <<"u","i","n","t","8">>),
      TypeMember("INT16",  <<"i","n","t","1","6">>),
      TypeMember("UINT16", <<"u","i","n","t","1","6">>),
      TypeMember("INT32",  <<"i","n","t","3","2">>),
      TypeMember("UINT32", <<"u","i","n","t","3","2">>),
      TypeMember("FLOAT",  <<"f","l","o","a","t">>),
      TypeMember("DOUBLE", <<"d","o","u","b","l","e">>) }
TypeOf(n) == CHOOSE e \in TypeEnum : e.name = n

SlopeMember(n, v) == [t |-> "SlopeEnum", name |-> n, value |-> v]
SlopeEnum ==
    { SlopeMember("ZERO", 0), SlopeMember("POSITIVE", 1),
      SlopeMember("NEGATIVE", 2), SlopeMember("BOTH", 3),
      SlopeMember("UNSPECIFIED", 4), SlopeMember("DERIVATIVE", 5) }
SlopeOf(n) == CHOOSE e \in SlopeEnum : e.name = n

(* ------------------------------------------------------------- Gmetric *)
\* socket.gethostname() of the sending machine
MyHost == <<"m">>

GvNames == {"gv_name", "gv_value", "gv_type", "gv_units", "gv_slope",
            "gv_tmax", "gv_dmax"}
GmNames == {"gm_cluster", "gm_group", "gm_desc", "gm_title",
            "gm_spoof_host", "gm_spoof_heartbeat"}

\* name.replace('gv_', '', 1) and name.replace('gm_', '', 1)
StripPrefix(name) ==
    CASE name = "gv_name" -> "name"
      [] name = "gv_value" -> "value"
      [] name = "gv_type" -> "type"
      [] name = "gv_units" -> "units"
      [] name = "gv_slope" -> "slope"
      [] name = "gv_tmax" -> "tmax"
      [] name = "gv_dmax" -> "dmax"
      [] name = "gm_cluster" -> "cluster"
      [] name = "gm_group" -> "group"
      [] name = "gm_desc" -> "desc"
      [] name = "gm_title" -> "title"
      [] name = "gm_spoof_host" -> "spoof_host"
      [] name = "gm_spoof_heartbeat" -> "spoof_heartbeat"

\* the object Gmetric.__init__ leaves behind
NewGmetric ==
    [ myhost |-> MyHost,
      gv_name |-> PyStr(S_empty),
      gv_value |-> PyStr(S_empty),
      gv_type |-> TypeOf("STRING"),
      gv_units |-> PyStr(S_empty),
      gv_slope |-> SlopeOf("BOTH"),
      gv_tmax |-> PyInt(60),
      gv_dmax |-> PyInt(0),
      gm_cluster |-> None,
      gm_group |-> None,
      gm_desc |-> None,
      gm_title |-> None,
      gm_spoof_host |-> None,
      gm_spoof_heartbeat |-> PyBool(FALSE) ]

\* '"' in value, for a str
ContainsChar(s, c) == \E i \in 1..Len(s) : s[i] = c

\* a slip: the test looks for the single quote instead of the double quote
check_containing_quot_single(value) ==
    /\ Truthy(value)
    /\ value.t = "str"
    /\ ContainsChar(value.s, "'")

\* value and '"' in value: truthy iff this holds; a non-str, non-empty value
\* makes the in test raise TypeError, which the caller sees as an error too
check_containing_quot(value) ==
    /\ Truthy(value)
    /\ (value.t = "str" => ContainsChar(value.s, "\""))

\* TRUE iff __check_gv_var__ raises
check_gv_var(gvname, value) ==
    CASE gvname \in {"name", "value", "units"} ->
             \/ value.t # "str"
             \/ check_containing_quot(value)
      [] gvname = "type" -> value \notin TypeEnum
      [] gvname = "slope" -> value \notin SlopeEnum
      [] gvname \in {"tmax", "dmax"} ->
             \* int(value) < 0; int(None) and int([...]) raise TypeError
             CASE value.t = "int" -> value.i < 0
               [] value.t = "bool" -> FALSE
               [] OTHER -> TRUE
      [] OTHER -> FALSE

\* index of the first ':' of s, 0 when there is none
FirstColon(s) ==
    IF ContainsChar(s, ":")
    THEN CHOOSE i \in 1..Len(s) :
            /\ s[i] = ":"
            /\ \A j \in 1..(i - 1) : s[j] # ":"
    ELSE 0

\* the value __validate_spoof_host__ returns: False twice, and None when it
\* falls off its end
validate_spoof_host(value) ==
    IF ~ContainsChar(value.s, ":")
    THEN PyBool(FALSE)
    ELSE LET k == FirstColon(value.s)
             spoofip == SubSeq(value.s, 1, k - 1)
             spoofhost == SubSeq(value.s, k + 1, Len(value.s))
         IN  IF Len(spoofip) = 0 \/ Len(spoofhost) = 0
             THEN PyBool(FALSE)
             ELSE None

\* TRUE iff __check_gm_var__ raises
check_gm_var(gmname, value) ==
    CASE gmname \in {"cluster", "desc", "title"} ->
             \/ (value # None /\ value.t # "str")
             \/ (Truthy(value) /\ check_containing_quot(value))
      [] gmname = "group" ->
             /\ value # None
             /\ \/ value.t # "list"
                \/ \E i \in 1..Len(value.l) : check_containing_quot(value.l[i])
      [] gmname = "spoof_host" ->
             Truthy(value) /\ Truthy(validate_spoof_host(value))
      [] gmname = "spoof_heartbeat" -> value.t # "bool"
      [] OTHER -> FALSE

\* TRUE iff Gmetric.__setattr__(name, value) raises before it stores
setattr_raises(name, value) ==
    IF name \in GvNames THEN check_gv_var(StripPrefix(name), value)
    ELSE IF name \in GmNames THEN check_gm_var(StripPrefix(name), value)
    ELSE FALSE

\* the object after Gmetric.__setattr__(name, value)
setattr(g, name, value) ==
    IF setattr_raises(name, value) THEN g ELSE [g EXCEPT ![name] = value]

\* a slip: set_heartbeat without its gv_units assignment
set_heartbeat_keeps_units(g) ==
    [g EXCEPT !.gv_name = PyStr(S_heartbeat),
              !.gv_type = TypeOf("UINT32"),
              !.gv_value = PyStr(S_zero),
              !.gv_slope = SlopeOf("ZERO"),
              !.gv_tmax = PyInt(0),
              !.gv_dmax = PyInt(0),
              !.gm_spoof_heartbeat = PyBool(TRUE)]

\* the object after Gmetric.set_heartbeat(): eight assignments, none of
\* which can raise
set_heartbeat(g) ==
    LET g1 == setattr(g, "gv_name", PyStr(S_heartbeat))
        g2 == setattr(g1, "gv_type", TypeOf("UINT32"))
        g3 == setattr(g2, "gv_value", PyStr(S_zero))
        g4 == setattr(g3, "gv_units", PyStr(S_empty))
        g5 == setattr(g4, "gv_slope", SlopeOf("ZERO"))
        g6 == setattr(g5, "gv_tmax", PyInt(0))
        g7 == setattr(g6, "gv_dmax", PyInt(0))
    IN  setattr(g7, "gm_spoof_heartbeat", PyBool(TRUE))

(* ---------------------------------------------------------- xdrlib.Packer *)
\* a buffer is the sequence of the items packed into it
pack_int(p, v) == Append(p, [k |-> "int", n |-> v])
pack_uint(p, v) == Append(p, [k |-> "uint", n |-> v])
pack_bool(p, v) == Append(p, [k |-> "bool", n |-> IF Truthy(v) THEN 1 ELSE 0])
pack_string(p, s) == Append(p, [k |-> "string", s |-> s])

\* targethost of get_metabuf and get_valuebuf
targethost(g) ==
    IF Truthy(g.gm_spoof_host) THEN g.gm_spoof_host.s ELSE g.myhost

\* the name both encoders pack
packed_name(g) ==
    IF Truthy(g.gm_spoof_heartbeat) THEN S_heartbeat ELSE g.gv_name.s

\* self.gm_spoof_host and len(self.gm_spoof_host) > 0
spoof_flag(g) ==
    IF Truthy(g.gm_spoof_host)
    THEN PyBool(Len(g.gm_spoof_host.s) > 0)
    ELSE g.gm_spoof_host

get_meta_value_buf(g, pack) ==
    LET p1 == pack_string(pack, packed_name(g))
        p2 == pack_bool(p1, spoof_flag(g))
        p3 == pack_string(p2, g.gv_type.value)
        p4 == pack_string(p3, packed_name(g))
        p5 == pack_string(p4, g.gv_units.s)
        p6 == pack_uint(p5, g.gv_slope.value)
        p7 == pack_uint(p6, g.gv_tmax.i)
    IN  pack_uint(p7, g.gv_dmax.i)

\* mlen of __get_meta_meta_buf__
meta_mlen(g) ==
    LET counted == {f \in {"gm_cluster", "gm_desc", "gm_title", "gm_spoof_host"} :
                      g[f] # None}
    IN  Cardinality(counted)
        + (IF Truthy(g.gm_group) THEN Len(g.gm_group.l) ELSE 0)
        + (IF Truthy(g.gm_spoof_heartbeat) THEN 1 ELSE 0)

\* one (key, value) pair
pack_pair(p, key, s) == pack_string(pack_string(p, key), s)

RECURSIVE pack_group(_, _, _)
pack_group(p, l, i) ==
    IF i > Len(l) THEN p
    ELSE pack_group(pack_pair(p, S_GROUP, l[i].s), l, i + 1)

get_meta_meta_buf(g, pack) ==
    LET p0 == pack_uint(pack, meta_mlen(g))
        p1 == IF Truthy(g.gm_cluster)
              THEN pack_pair(p0, S_CLUSTER, g.gm_cluster.s) ELSE p0
        p2 == IF Truthy(g.gm_desc)
              THEN pack_pair(p1, S_DESC, g.gm_desc.s) ELSE p1
        p3 == IF Truthy(g.gm_title)
              THEN pack_pair(p2, S_TITLE, g.gm_title.s) ELSE p2
        p4 == IF Truthy(g.gm_group)
              THEN pack_group(p3, g.gm_group.l, 1) ELSE p3
        p5 == IF Truthy(g.gm_spoof_host)
              THEN pack_pair(p4, S_SPOOF_HOST, g.gm_spoof_host.s) ELSE p4
    IN  IF Truthy(g.gm_spoof_heartbeat)
        THEN pack_pair(p5, S_SPOOF_HEARTBEAT, S_yes) ELSE p5

get_metabuf(g) ==
    LET m0 == pack_int(<<>>, 128)
        m1 == pack_string(m0, targethost(g))
        m2 == get_meta_value_buf(g, m1)
    IN  get_meta_meta_buf(g, m2)

get_valuebuf(g) ==
    LET p0 == pack_int(<<>>, 128 + 5)
        p1 == pack_string(p0, targethost(g))
        p2 == pack_string(p1, packed_name(g))
        p3 == pack_bool(p2, spoof_flag(g))
        p4 == pack_string(p3, S_fmt)
    IN  pack_string(p4, g.gv_value.s)

(* ------------------------------------------------------- the machine *)
\* the threads of the host program and the Gmetric objects they share
Threads == {1, 2}
Metrics == {1, 2}

VARIABLES
    metric,     \* metric[m]: the attributes of Gmetric object m
    last,       \* the last Gmetric call made and how it ended
    dstaddr,    \* Sender.__dstaddr
    ttl,        \* Sender.__ttl
    mysocket,   \* Sender.__mysocket: a socket id, 0 for None
    mylock,     \* Sender.__mylock: the thread holding it, 0 when free
    socks,      \* every socket created so far: its state and its TTL option
    wire,       \* the datagrams handed to sendto, in order
    pc,         \* pc[t]: where thread t stands inside a Sender call
    cur,        \* cur[t]: the metric argument of thread t's send
    mbuf,       \* mbuf[t], vbuf[t]: the locals of thread t's send
    vbuf,
    scall,      \* scall[t]: the last Sender call of thread t and its outcome
    ncalls,     \* Sender calls made so far
    sent        \* history: the metric, as it was at the call, of every send
                \* that returned

vars == <<metric, last, dstaddr, ttl, mysocket, mylock, socks, wire, pc, cur,
          mbuf, vbuf, scall, ncalls, sent>>
gvars == <<metric, last>>
svars == <<dstaddr, ttl, mysocket, mylock, socks, wire, pc, cur, mbuf, vbuf,
           scall, ncalls, sent>>

\* ipaddress.ip_address(host).is_multicast, for the two destinations drawn
is_multicast(addr) == addr[1] = "239.2.11.71"

\* the defaults of Sender.__init__
DefaultPort == 8649
DefaultAddr == <<"127.0.0.1", DefaultPort>>

NoCall == [op |-> "none", m |-> 0, name |-> "", value |-> None,
           raised |-> FALSE, buf |-> <<>>]
NoSenderCall == [op |-> "none", m |-> 0, outcome |-> "none", id |-> 0,
                 snap |-> NewGmetric]

\* Sender() or Sender('239.2.11.71', ttl=2), and fresh Gmetrics
Init ==
    /\ metric = [m \in Metrics |-> NewGmetric]
    /\ last = NoCall
    /\ dstaddr \in {DefaultAddr, <<"239.2.11.71", DefaultPort>>}
    /\ ttl = IF is_multicast(dstaddr) THEN 2 ELSE 1
    /\ mysocket = 0
    /\ mylock = 0
    /\ socks = <<>>
    /\ wire = <<>>
    /\ pc = [t \in Threads |-> "idle"]
    /\ cur = [t \in Threads |-> 0]
    /\ mbuf = [t \in Threads |-> <<>>]
    /\ vbuf = [t \in Threads |-> <<>>]
    /\ scall = [t \in Threads |-> NoSenderCall]
    /\ ncalls = 0
    /\ sent = <<>>

(* ---- Gmetric calls ---- *)
\* metric.<name> = value by thread t
Assign(t, m, name, value) ==
    /\ pc[t] = "idle"
    /\ metric' = [metric EXCEPT ![m] = setattr(metric[m], name, value)]
    /\ UNCHANGED svars

\* the same, by a caller whose call and its outcome are kept in last
SetAttr(t, m, name, value) ==
    /\ Assign(t, m, name, value)
    /\ last' = [op |-> "setattr", m |-> m, name |-> name, value |-> value,
                raised |-> setattr_raises(name, value), buf |-> <<>>]

SetHeartbeat(t, m) ==
    /\ pc[t] = "idle"
    /\ metric' = [metric EXCEPT ![m] = set_heartbeat(metric[m])]
    /\ last' = [NoCall EXCEPT !.op = "set_heartbeat", !.m = m]
    /\ UNCHANGED svars

GetMetabuf(t, m) ==
    /\ pc[t] = "idle"
    /\ last' = [NoCall EXCEPT !.op = "get_metabuf", !.m = m,
                              !.buf = get_metabuf(metric[m])]
    /\ UNCHANGED <<metric, svars>>

GetValuebuf(t, m) ==
    /\ pc[t] = "idle"
    /\ last' = [NoCall EXCEPT !.op = "get_valuebuf", !.m = m,
                              !.buf = get_valuebuf(metric[m])]
    /\ UNCHANGED <<metric, svars>>

(* ---- Sender calls, statement by statement ---- *)
\* the object a dropped reference leaves behind: the Sender never closes it;
\* whether the runtime's finalizer does is not the program's to decide
Dropped(ss, s, finalized) ==
    IF s # 0 /\ finalized THEN [ss EXCEPT ![s].state = "closed"] ELSE ss

\* socket.socket(AF_INET, SOCK_DGRAM), then setsockopt(IP_MULTICAST_TTL) for
\* a multicast destination
NewSocket == [state |-> "open",
              mttl |-> IF is_multicast(dstaddr) THEN ttl ELSE 0]

\* the body of Sender.create_socket: the new socket replaces the reference
\* held, whatever it was
create_socket(finalized) ==
    /\ Len(socks) < MaxSockets
    /\ socks' = Append(Dropped(socks, mysocket, finalized), NewSocket)
    /\ mysocket' = Len(socks) + 1

\* thread t enters a Sender method: the call is counted
Enter(t) ==
    /\ pc[t] = "idle"
    /\ ncalls < MaxCalls
    /\ ncalls' = ncalls + 1

CreateSocket(t) ==
    /\ Enter(t)
    /\ \E finalized \in BOOLEAN : create_socket(finalized)
    /\ scall' = [scall EXCEPT ![t] = [NoSenderCall EXCEPT
                    !.op = "create_socket", !.outcome = "returned",
                    !.id = ncalls + 1]]
    /\ UNCHANGED <<gvars, dstaddr, ttl, mylock, wire, pc, cur, mbuf, vbuf,
                   sent>>

\* a slip: close_socket without its if
close_guard_missing(s) == TRUE

\* the if of Sender.close_socket
close_guard(s) == s # 0

\* try: if self.__mysocket: self.__mysocket.close()
CloseSocketClose(t) ==
    /\ Enter(t)
    /\ IF close_guard(mysocket)
       THEN IF mysocket = 0
            THEN \* None has no close(): AttributeError, after the finally
                 /\ scall' = [scall EXCEPT ![t] = [NoSenderCall EXCEPT
                                 !.op = "close_socket", !.outcome = "raising",
                                 !.id = ncalls + 1]]
                 /\ UNCHANGED socks
            ELSE /\ socks' = [socks EXCEPT ![mysocket].state = "closed"]
                 /\ scall' = [scall EXCEPT ![t] = [NoSenderCall EXCEPT
                                 !.op = "close_socket", !.outcome = "running",
                                 !.id = ncalls + 1]]
       ELSE /\ scall' = [scall EXCEPT ![t] = [NoSenderCall EXCEPT
                            !.op = "close_socket", !.outcome = "running",
                            !.id = ncalls + 1]]
            /\ UNCHANGED socks
    /\ pc' = [pc EXCEPT ![t] = "clear"]
    /\ UNCHANGED <<gvars, dstaddr, ttl, mysocket, mylock, wire, cur, mbuf,
                   vbuf, sent>>

\* finally: self.__mysocket = None
CloseSocketClear(t) ==
    /\ pc[t] = "clear"
    /\ \E finalized \in BOOLEAN :
          socks' = Dropped(socks, mysocket, finalized)
    /\ mysocket' = 0
    /\ scall' = [scall EXCEPT ![t].outcome =
                    IF @ = "raising" THEN "raised" ELSE "returned"]
    /\ pc' = [pc EXCEPT ![t] = "idle"]
    /\ UNCHANGED <<gvars, dstaddr, ttl, mylock, wire, cur, mbuf, vbuf,
                   ncalls, sent>>

\* a slip: the check tests gm_spoof_host against None only
send_refuses_none_only(g) ==
    Truthy(g.gm_spoof_heartbeat) /\ g.gm_spoof_host = None

\* metric.gm_spoof_heartbeat and not metric.gm_spoof_host
send_refuses(g) == Truthy(g.gm_spoof_heartbeat) /\ ~Truthy(g.gm_spoof_host)

\* the call and the two checks that open Sender.send
SendCall(t, m) ==
    /\ Enter(t)
    /\ IF send_refuses(metric[m])
       THEN /\ scall' = [scall EXCEPT ![t] =
                           [op |-> "send", m |-> m, outcome |-> "raised",
                            id |-> ncalls + 1, snap |-> NewGmetric]]
            /\ UNCHANGED <<pc, cur>>
       ELSE /\ scall' = [scall EXCEPT ![t] =
                           [op |-> "send", m |-> m, outcome |-> "running",
                            id |-> ncalls + 1, snap |-> metric[m]]]
            /\ pc' = [pc EXCEPT ![t] = "acquire"]
            /\ cur' = [cur EXCEPT ![t] = m]
    /\ UNCHANGED <<gvars, dstaddr, ttl, mysocket, mylock, socks, wire, mbuf,
                   vbuf, sent>>

\* self.__mylock.acquire()
SendAcquire(t) ==
    /\ pc[t] = "acquire"
    /\ mylock \in {0, t}
    /\ mylock' = t
    /\ pc' = [pc EXCEPT ![t] = "meta"]
    /\ UNCHANGED <<gvars, dstaddr, ttl, mysocket, socks, wire, cur, mbuf,
                   vbuf, scall, ncalls, sent>>

\* mbuf = metric.get_metabuf(): the Gmetric's own lock is taken and released
\* inside the call, and __setattr__ never takes it, so the call excludes no
\* assignment; the reads of one call are taken together here
SendMeta(t) ==
    /\ pc[t] = "meta"
    /\ mbuf' = [mbuf EXCEPT ![t] = get_metabuf(metric[cur[t]])]
    /\ pc' = [pc EXCEPT ![t] = "value"]
    /\ UNCHANGED <<gvars, dstaddr, ttl, mysocket, mylock, socks, wire, cur,
                   vbuf, scall, ncalls, sent>>

\* vbuf = metric.get_valuebuf()
SendValue(t) ==
    /\ pc[t] = "value"
    /\ vbuf' = [vbuf EXCEPT ![t] = get_valuebuf(metric[cur[t]])]
    /\ pc' = [pc EXCEPT ![t] = "release"]
    /\ UNCHANGED <<gvars, dstaddr, ttl, mysocket, mylock, socks, wire, cur,
                   mbuf, scall, ncalls, sent>>

\* finally: self.__mylock.release()
SendRelease(t) ==
    /\ pc[t] = "release"
    /\ mylock' = 0
    /\ pc' = [pc EXCEPT ![t] = "check"]
    /\ UNCHANGED <<gvars, dstaddr, ttl, mysocket, socks, wire, cur, mbuf,
                   vbuf, scall, ncalls, sent>>

\* if not self.__mysocket:
SendCheckSocket(t) ==
    /\ pc[t] = "check"
    /\ pc' = [pc EXCEPT ![t] = IF mysocket = 0 THEN "create" ELSE "sendm"]
    /\ UNCHANGED <<gvars, dstaddr, ttl, mysocket, mylock, socks, wire, cur,
                   mbuf, vbuf, scall, ncalls, sent>>

\*     self.create_socket()
SendCreateSocket(t) ==
    /\ pc[t] = "create"
    /\ \E finalized \in BOOLEAN : create_socket(finalized)
    /\ pc' = [pc EXCEPT ![t] = "sendm"]
    /\ UNCHANGED <<gvars, dstaddr, ttl, mylock, wire, cur, mbuf, vbuf, scall,
                   ncalls, sent>>

\* the datagram sendto(buf, self.__dstaddr) hands to socket s for send id
Datagram(s, buf, id) == [sock |-> s, buf |-> buf, dst |-> dstaddr, id |-> id]

\* a slip: the value buffer is handed over first
first_buffer_swapped(t) == vbuf[t]

\* the order in which send hands its two buffers to the socket
first_buffer(t) == mbuf[t]
second_buffer(t) == vbuf[t]

\* self.__mysocket.sendto(...) fails on None (AttributeError) and on a
\* closed socket (OSError); on an open socket the datagram leaves
sendto_fails == mysocket = 0 \/ socks[mysocket].state = "closed"

SendFail(t) ==
    /\ scall' = [scall EXCEPT ![t].outcome = "raised", ![t].snap = NewGmetric]
    /\ pc' = [pc EXCEPT ![t] = "idle"]
    /\ UNCHANGED <<wire, sent>>

\* self.__mysocket.sendto(mbuf, self.__dstaddr)
SendMetaDatagram(t) ==
    /\ pc[t] = "sendm"
    /\ IF sendto_fails
       THEN SendFail(t)
       ELSE /\ wire' = Append(wire, Datagram(mysocket, first_buffer(t),
                                             scall[t].id))
            /\ pc' = [pc EXCEPT ![t] = "sendv"]
            /\ UNCHANGED <<scall, sent>>
    /\ UNCHANGED <<gvars, dstaddr, ttl, mysocket, mylock, socks, cur, mbuf,
                   vbuf, ncalls>>

\* self.__mysocket.sendto(vbuf, self.__dstaddr)
SendValueDatagram(t) ==
    /\ pc[t] = "sendv"
    /\ IF sendto_fails
       THEN SendFail(t)
       ELSE /\ wire' = Append(wire, Datagram(mysocket, second_buffer(t),
                                             scall[t].id))
            /\ pc' = [pc EXCEPT ![t] = "idle"]
            /\ scall' = [scall EXCEPT ![t].outcome = "returned",
                                      ![t].snap = NewGmetric]
            /\ sent' = Append(sent, scall[t].snap)
    /\ UNCHANGED <<gvars, dstaddr, ttl, mysocket, mylock, socks, cur, mbuf,
                   vbuf, ncalls>>

\* one statement of a Sender call by thread t
SenderStep(t, ms) ==
    \/ CreateSocket(t)
    \/ CloseSocketClose(t)
    \/ CloseSocketClear(t)
    \/ \E m \in ms : SendCall(t, m)
    \/ SendAcquire(t)
    \/ SendMeta(t)
    \/ SendValue(t)
    \/ SendRelease(t)
    \/ SendCheckSocket(t)
    \/ SendCreateSocket(t)
    \/ SendMetaDatagram(t)
    \/ SendValueDatagram(t)

(* ------------------------------------------------- what callers assign *)
RECURSIVE SeqsUpTo(_, _)
\* the sequences over S of length at most n
SeqsUpTo(S, n) ==
    IF n = 0 THEN {<<>>}
    ELSE LET shorter == SeqsUpTo(S, n - 1)
         IN  shorter \cup {Append(q, x) : q \in shorter, x \in S}

StrInputs(c) == {PyStr(<<c>>), PyStr(<<c, "\"">>), None}
OptInputs(c) == {None, PyStr(<<>>), PyStr(<<c>>), PyStr(<<"\"", c>>), PyInt(1)}

\* the values a caller assigns to each attribute: accepted and refused ones
Inputs(name) ==
    CASE name = "gv_name" -> StrInputs("a")
      [] name = "gv_value" -> StrInputs("1")
      [] name = "gv_units" -> StrInputs("u")
      [] name = "gv_type" -> {TypeOf("INT8"), PyStr(<<"i","n","t","8">>)}
      [] name = "gv_slope" -> {SlopeOf("POSITIVE"), PyStr(<<"b","o","t","h">>)}
      [] name = "gv_tmax" -> {PyInt(30), PyInt(-1)}
      [] name = "gv_dmax" -> {PyInt(360), PyInt(-1)}
      [] name = "gm_cluster" -> OptInputs("c")
      [] name = "gm_desc" -> OptInputs("d")
      [] name = "gm_title" -> OptInputs("t")
      [] name = "gm_group" ->
             {None, PyStr(<<"g">>)} \cup
             {PyList(l) : l \in SeqsUpTo({PyStr(<<"g">>), PyStr(<<"\"">>)}, MaxGroup)}
      [] name = "gm_spoof_host" ->
             {None, PyStr(<<>>), PyStr(<<"i",":","h">>), PyStr(<<"x">>),
              PyStr(<<":","h">>), PyStr(<<"i",":">>)}
      [] name = "gm_spoof_heartbeat" -> {PyBool(TRUE), PyBool(FALSE), None}

\* the attributes that take strings, and the quote test with them
StrNames == {"gv_name", "gv_value", "gv_units", "gm_cluster", "gm_desc",
             "gm_title", "gm_group"}
\* the attributes the encoded name, host and flag are read from
SpoofNames == {"gv_name", "gm_spoof_host", "gm_spoof_heartbeat"}
SenderInputs(name) ==
    CASE name = "gv_name" -> {PyStr(<<"a">>)}
      [] name = "gm_spoof_host" -> {None, PyStr(<<>>), PyStr(<<"i",":","h">>)}
      [] name = "gm_spoof_heartbeat" -> {PyBool(TRUE), PyBool(FALSE)}

\* what the threads of the concurrent program assign while sends run
ThreadInputs(name) ==
    CASE name = "gv_name" -> {PyStr(<<"a">>)}
      [] name = "gm_spoof_host" -> {PyStr(<<"i",":","h">>)}
      [] name = "gm_spoof_heartbeat" -> {PyBool(TRUE)}

(* ------------------------------------------------------ specifications *)
\* the Sender of the examples: Sender() with its default destination
InitDefault == Init /\ dstaddr = DefaultAddr

\* one caller, one Gmetric: assignments to the attributes in names, and the
\* three methods
MetricCalls(names) ==
    \/ \E n \in names : \E v \in Inputs(n) : SetAttr(1, 1, n, v)
    \/ SetHeartbeat(1, 1)
    \/ GetMetabuf(1, 1)
    \/ GetValuebuf(1, 1)

NextMeta == MetricCalls(GmNames)
SpecMeta == InitDefault /\ [][NextMeta]_vars

NextStr == MetricCalls(StrNames)
SpecStr == InitDefault /\ [][NextStr]_vars

NextValue == MetricCalls(GvNames \cup {"gm_spoof_host", "gm_spoof_heartbeat"})
SpecValue == InitDefault /\ [][NextValue]_vars

\* one thread using one Sender and one Gmetric, call after call
NextSeq ==
    \/ SenderStep(1, {1})
    \/ \E n \in SpoofNames : \E v \in SenderInputs(n) :
          Assign(1, 1, n, v) /\ UNCHANGED last
SpecSeq == Init /\ [][NextSeq]_vars

\* the threads of a host program sharing one Sender: thread t sends its own
\* Gmetric t, and every thread assigns attributes of Gmetric 1
Next ==
    \E t \in Threads :
        \/ SenderStep(t, {t})
        \/ \E n \in SpoofNames : \E v \in ThreadInputs(n) :
              Assign(t, 1, n, v) /\ UNCHANGED last
Spec == InitDefault /\ [][Next]_vars

(* ============================================================ claims *)
(* ---- reading a buffer ---- *)
BufHost(buf) == buf[2].s
BufName(buf) == buf[3].s
BufSpoofed(buf) == buf[4].n
IsMetaBuf(buf) == buf[1].n = 128
IsValueBuf(buf) == buf[1].n = 133
\* the extra-metadata count of a metadata buffer, and the items after it
ExtraCount(buf) == buf[11].n
ExtraItems(buf) == SubSeq(buf, 12, Len(buf))

\* a str with a double quote in it, or a list with such an element
HasQuote(v) ==
    \/ v.t = "str" /\ \E i \in 1..Len(v.s) : v.s[i] = "\""
    \/ v.t = "list" /\ \E k \in 1..Len(v.l) :
          v.l[k].t = "str" /\ \E i \in 1..Len(v.l[k].s) : v.l[k].s[i] = "\""

\* a non-empty str that is not <ip>:<alias> with both parts non-empty
Malformed(v) ==
    /\ v.t = "str"
    /\ Len(v.s) > 0
    /\ ~ \E k \in 2..(Len(v.s) - 1) :
            /\ v.s[k] = ":"
            /\ \A j \in 1..(k - 1) : v.s[j] # ":"

\* what C7 says of the metadata buffer of a heartbeat
HeartbeatMeta(buf) ==
    /\ buf[3] = [k |-> "string", s |-> S_heartbeat]
    /\ buf[5] = [k |-> "string", s |-> <<"u","i","n","t","3","2">>]
    /\ buf[6] = [k |-> "string", s |-> S_heartbeat]
    /\ buf[7] = [k |-> "string", s |-> <<>>]
    /\ buf[8] = [k |-> "uint", n |-> 0]
    /\ buf[9] = [k |-> "uint", n |-> 0]
    /\ buf[10] = [k |-> "uint", n |-> 0]
    /\ Len(buf) >= 13
    /\ buf[Len(buf) - 1] = [k |-> "string", s |-> S_SPOOF_HEARTBEAT]
    /\ buf[Len(buf)] = [k |-> "string", s |-> S_yes]

(* C1: when two threads send concurrently on one Sender, each with its own
   Gmetric, a metadata datagram on the wire is immediately followed by the
   value datagram of the same send. *)
C1_NeverInterleaved ==
    \A i \in 1..Len(wire) :
        (IsMetaBuf(wire[i].buf) /\ i < Len(wire)) =>
            (IsValueBuf(wire[i + 1].buf) /\ wire[i + 1].id = wire[i].id)

(* C2: the extra-metadata count get_metabuf writes equals the number of
   (key, value) pairs it emits after the count. *)
C2_CountMatchesPairs ==
    last.op = "get_metabuf" =>
        2 * ExtraCount(last.buf) = Len(ExtraItems(last.buf))

(* C3: assigning a string with a double quote to gv_name, gv_value, gv_units,
   gm_cluster, gm_desc or gm_title, or a list with such an element to
   gm_group, raises at the assignment and leaves every attribute as it was. *)
C3_QuoteRejected ==
    [][(last'.op = "setattr" /\ last'.name \in StrNames /\ HasQuote(last'.value))
          => (last'.raised /\ metric' = metric)]_vars

\* a quoted name was refused while gv_name held an assigned value
C3_Witness ==
    /\ last.op = "setattr"
    /\ last.name = "gv_name"
    /\ HasQuote(last.value)
    /\ last.raised
    /\ metric[1].gv_name = PyStr(<<"a">>)
    /\ metric[1].gm_group = PyList(<<PyStr(<<"g">>)>>)

(* C4: assigning to gm_spoof_host a non-empty value that is not <ip>:<alias>
   with both parts non-empty fails at the assignment, and gm_spoof_host keeps
   its previous value. *)
C4_MalformedSpoofHostRejected ==
    [][(last'.op = "setattr" /\ last'.name = "gm_spoof_host"
            /\ Malformed(last'.value))
          => (last'.raised
              /\ metric'[1].gm_spoof_host = metric[1].gm_spoof_host)]_vars

(* C5: send on a Gmetric whose gm_spoof_heartbeat is true and whose
   gm_spoof_host is None or empty raises and does no network I/O: no
   datagram is sent, no socket is created, and the Sender's socket is the one
   it held before the call. *)
C5_HeartbeatNeedsSpoofHost ==
    [][\A t \in Threads :
          (/\ ncalls' = ncalls + 1
           /\ scall'[t].id = ncalls'
           /\ scall'[t].op = "send"
           /\ metric[scall'[t].m].gm_spoof_heartbeat = PyBool(TRUE)
           /\ metric[scall'[t].m].gm_spoof_host \in {None, PyStr(<<>>)})
          => (/\ scall'[t].outcome = "raised"
              /\ pc'[t] = "idle"
              /\ wire' = wire
              /\ socks' = socks
              /\ mysocket' = mysocket)]_vars

\* a send was refused for a Gmetric whose spoof host had been assigned the
\* empty string, on a Sender holding an open socket
C5_Witness ==
    /\ scall[1].op = "send"
    /\ scall[1].outcome = "raised"
    /\ metric[1].gm_spoof_heartbeat = PyBool(TRUE)
    /\ metric[1].gm_spoof_host = PyStr(<<>>)
    /\ mysocket # 0
    /\ wire = <<>>

(* C6: after n successful sends made one after another on one Sender, with
   create_socket and close_socket calls in between, the wire holds exactly 2n
   datagrams: metadata_1, value_1, ..., metadata_n, value_n, each addressed
   to the configured destination. *)
C6_TwoDatagramsPerSendInOrder ==
    pc[1] = "idle" =>
        /\ Len(wire) = 2 * Len(sent)
        /\ \A i \in 1..Len(sent) :
              /\ wire[2 * i - 1].buf = get_metabuf(sent[i])
              /\ wire[2 * i].buf = get_valuebuf(sent[i])
              /\ wire[2 * i - 1].dst = dstaddr
              /\ wire[2 * i].dst = dstaddr

\* two sends of different metrics returned, the second on a socket opened
\* after the first one was closed
C6_Witness ==
    /\ pc[1] = "idle"
    /\ Len(sent) = 2
    /\ sent[1] # sent[2]
    /\ Len(wire) = 4
    /\ wire[1].sock # wire[3].sock

(* C7: whatever the Gmetric held before, set_heartbeat followed by
   get_metabuf gives a metadata buffer with both names 'heartbeat', type
   'uint32', empty units, slope 0, tmax 0, dmax 0, and
   ('SPOOF_HEARTBEAT', 'yes') as its last pair. *)
C7_HeartbeatMetabuf ==
    [][(last.op = "set_heartbeat" /\ last'.op = "get_metabuf")
          => HeartbeatMeta(last'.buf)]_vars

\* a heartbeat buffer was encoded for a Gmetric that also has a spoof host
C7_Witness ==
    /\ last.op = "get_metabuf"
    /\ HeartbeatMeta(last.buf)
    /\ metric[1].gm_spoof_host = PyStr(<<"i",":","h">>)
    /\ metric[1].gv_value = PyStr(S_zero)

(* C8: close_socket completes without error on a Sender that never opened a
   socket and when called twice in a row; after it returns the Sender holds
   no socket, and a later send opens a new one before it sends. *)
C8_CloseIdempotent ==
    /\ (scall[1].op = "close_socket" /\ pc[1] = "idle") =>
           (scall[1].outcome = "returned" /\ mysocket = 0)
    /\ pc[1] \in {"sendm", "sendv"} =>
           (mysocket # 0 /\ socks[mysocket].state = "open")

\* the second call of the behaviour was a close_socket that returned, and no
\* socket was ever opened
C8_Witness ==
    /\ scall[1].op = "close_socket"
    /\ scall[1].outcome = "returned"
    /\ scall[1].id = 2
    /\ pc[1] = "idle"
    /\ socks = <<>>

(* C9: the metadata datagram and the value datagram of one send carry the
   same originating host, the same metric name and the same is-spoofed flag,
   also when another thread assigns attributes of the Gmetric meanwhile. *)
C9_AtomicSnapshot ==
    \A i \in 1..Len(wire) : \A j \in 1..Len(wire) :
        wire[i].id = wire[j].id =>
            /\ BufHost(wire[i].buf) = BufHost(wire[j].buf)
            /\ BufName(wire[i].buf) = BufName(wire[j].buf)
            /\ BufSpoofed(wire[i].buf) = BufSpoofed(wire[j].buf)

(* C10: every socket the Sender has created is the one it holds or has been
   closed. *)
C10_AtMostOneOpenSocket ==
    \A s \in 1..Len(socks) : socks[s].state = "open" => mysocket = s

====
